---- MODULE Spec2Model ----
(***************************************************************************)
(* Leapfrog N-body simulation (src/src/main.rs): the Bodies resource, the  *)
(* three systems of the Update schedule (leapfrog_step, update_visuals,    *)
(* update_ui_texts) and the IEEE-754 arithmetic they compute with.         *)
(*                                                                         *)
(* Numbers are modelled bit-exactly.  An f32 is a record                   *)
(*     [k |-> "fin" | "inf" | "nan", s |-> sign, m |-> mantissa, e |-> exp]*)
(* standing for (-1)^s * m * 2^e, with m < 2^24 and m >= 2^23 unless       *)
(* e = -149 (subnormal) or m = 0 (zero).  An f64 has the same shape with   *)
(* its 53-bit mantissa held as a little-endian sequence of 14-bit limbs.   *)
(* Every operation rounds to nearest, ties to even, as the hardware does.  *)
(* The two zeros are identified (+0): no operation of the program tells    *)
(* them apart (the only divisors that can be zero, r2 and r, are sums of   *)
(* squares and their root).                                                *)
(***************************************************************************)
EXTENDS Integers, Sequences, FiniteSets, TLC

Max(a, b) == IF a >= b THEN a ELSE b
Min(a, b) == IF a <= b THEN a ELSE b

\* Number of bits of a natural number below 2^31 (0 for 0).
BitLen(n) == Cardinality({i \in 0..30 : 2^i <= n})

(***************************************************************************)
(* f32: binary32 arithmetic                                                *)
(***************************************************************************)
F32Bits == 24
F32EMin == -149
F32EMax == 104

NaN32 == [k |-> "nan", s |-> 0, m |-> 0, e |-> 0]
Inf32(s) == [k |-> "inf", s |-> s, m |-> 0, e |-> 0]
Zero32 == [k |-> "fin", s |-> 0, m |-> 0, e |-> 0]
F32(s, m, e) == [k |-> "fin", s |-> s, m |-> m, e |-> e]

IsNaN(a) == a.k = "nan"
IsInf(a) == a.k = "inf"
IsFinite(a) == a.k = "fin"
IsZero(a) == a.k = "fin" /\ a.m = 0

\* Round (-1)^s * (M + f) * 2^e to f32, where 0 <= f < 1 and f > 0 iff st.
\* M < 2^30; when st holds M has at least 26 bits.
Round32(s, M, e, st) ==
  IF M = 0 THEN Zero32
  ELSE LET L == BitLen(M)
           sh == Max(L - F32Bits, F32EMin - e)
       IN IF sh > L THEN Zero32
          ELSE LET q == IF sh <= 0 THEN M * 2^(-sh) ELSE M \div 2^sh
                   r == IF sh <= 0 THEN 0 ELSE M % 2^sh
                   half == IF sh <= 0 THEN 1 ELSE 2^(sh - 1)
                   up == sh > 0 /\ (r > half \/ (r = half /\ (st \/ q % 2 = 1)))
                   q1 == IF up THEN q + 1 ELSE q
                   m2 == IF q1 = 2^F32Bits THEN 2^(F32Bits - 1) ELSE q1
                   e2 == IF q1 = 2^F32Bits THEN e + sh + 1 ELSE e + sh
               IN IF m2 = 0 THEN Zero32
                  ELSE IF e2 > F32EMax THEN Inf32(s)
                  ELSE F32(s, m2, e2)

\* |a| < |b| for a, b not NaN.
MagLt(a, b) ==
  IF IsInf(a) THEN FALSE
  ELSE IF IsInf(b) THEN TRUE
  ELSE IF IsZero(a) THEN ~IsZero(b)
  ELSE IF IsZero(b) THEN FALSE
  ELSE a.e < b.e \/ (a.e = b.e /\ a.m < b.m)

Sgn(a) == IF IsZero(a) THEN 0 ELSE IF a.s = 1 THEN -1 ELSE 1

\* a < b (false when either is NaN).
FLt(a, b) ==
  IF IsNaN(a) \/ IsNaN(b) THEN FALSE
  ELSE IF Sgn(a) # Sgn(b) THEN Sgn(a) < Sgn(b)
  ELSE IF Sgn(a) = 0 THEN FALSE
  ELSE IF Sgn(a) = 1 THEN MagLt(a, b) ELSE MagLt(b, a)

\* a > b (false when either is NaN).
FGt(a, b) == FLt(b, a)

FNeg(a) == IF IsNaN(a) \/ IsZero(a) THEN a ELSE [a EXCEPT !.s = 1 - a.s]

\* a + b for finite non-zero a, b with |a| >= |b|.
AddOrdered(a, b) ==
  LET d == a.e - b.e
  IN IF d >= 27 THEN a
     ELSE LET A == a.m * 8
              Bq == (b.m * 8) \div 2^d
              st == (b.m * 8) % 2^d # 0
          IN IF a.s = b.s THEN Round32(a.s, A + Bq, a.e - 3, st)
             ELSE IF st THEN Round32(a.s, A - Bq - 1, a.e - 3, TRUE)
             ELSE Round32(a.s, A - Bq, a.e - 3, FALSE)

FAdd(a, b) ==
  IF IsNaN(a) \/ IsNaN(b) THEN NaN32
  ELSE IF IsInf(a) THEN (IF IsInf(b) /\ a.s # b.s THEN NaN32 ELSE a)
  ELSE IF IsInf(b) THEN b
  ELSE IF IsZero(a) THEN b
  ELSE IF IsZero(b) THEN a
  ELSE IF MagLt(a, b) THEN AddOrdered(b, a) ELSE AddOrdered(a, b)

FSub(a, b) == FAdd(a, FNeg(b))

FMul(a, b) ==
  IF IsNaN(a) \/ IsNaN(b) THEN NaN32
  ELSE IF IsInf(a) \/ IsInf(b)
       THEN (IF IsZero(a) \/ IsZero(b) THEN NaN32 ELSE Inf32((a.s + b.s) % 2))
  ELSE IF IsZero(a) \/ IsZero(b) THEN Zero32
  ELSE LET a1 == a.m \div 4096
           a0 == a.m % 4096
           b1 == b.m \div 4096
           b0 == b.m % 4096
           mid == a1 * b0 + a0 * b1
           low == a0 * b0 + (mid % 4096) * 4096
           Lw == low % 2^24
           H == a1 * b1 + mid \div 4096 + low \div 2^24
           s == (a.s + b.s) % 2
           e == a.e + b.e
       IN IF H = 0 THEN Round32(s, Lw, e, FALSE)
          ELSE LET kk == Min(24, 28 - BitLen(H))
               IN Round32(s, H * 2^kk + Lw \div 2^(24 - kk), e + 24 - kk,
                          Lw % 2^(24 - kk) # 0)

\* One chunk of the long division of the remainder qr[2] by nb.
DivChunk(qr, nb, bits) ==
  <<qr[1] * 2^bits + (qr[2] * 2^bits) \div nb, (qr[2] * 2^bits) % nb>>

FDiv(a, b) ==
  IF IsNaN(a) \/ IsNaN(b) THEN NaN32
  ELSE IF IsInf(a) THEN (IF IsInf(b) THEN NaN32 ELSE Inf32((a.s + b.s) % 2))
  ELSE IF IsInf(b) THEN Zero32
  ELSE IF IsZero(b) THEN (IF IsZero(a) THEN NaN32 ELSE Inf32((a.s + b.s) % 2))
  ELSE IF IsZero(a) THEN Zero32
  ELSE LET ta == F32Bits - BitLen(a.m)
           tb == F32Bits - BitLen(b.m)
           na == a.m * 2^ta
           nb == b.m * 2^tb
           c0 == <<na \div nb, na % nb>>
           c1 == DivChunk(c0, nb, 7)
           c2 == DivChunk(c1, nb, 7)
           c3 == DivChunk(c2, nb, 7)
           c4 == DivChunk(c3, nb, 6)
       IN Round32((a.s + b.s) % 2, c4[1], (a.e - ta) - (b.e - tb) - 27,
                  c4[2] # 0)

\* One step of the digit-by-digit square root: bring down the bit pair p.
SqrtStep(rr, p) ==
  LET rem == rr[2] * 4 + p
      t == 4 * rr[1] + 1
  IN IF rem >= t THEN <<2 * rr[1] + 1, rem - t>> ELSE <<2 * rr[1], rem>>

RECURSIVE SqrtBits(_, _, _)
\* Digit-by-digit square root of m * 4^14 (m < 2^26): steps j, j-1, ..., 0,
\* where step j >= 14 brings down pair j-14 of m and the later ones zeros;
\* <<root, remainder>>.
SqrtBits(m, j, rr) ==
  LET nx == SqrtStep(rr, IF j >= 14 THEN (m \div 4^(j - 14)) % 4 ELSE 0)
  IN IF nx[1] >= 0 /\ j = 0 THEN nx ELSE SqrtBits(m, j - 1, nx)

FSqrt(a) ==
  IF IsNaN(a) THEN NaN32
  ELSE IF IsZero(a) THEN Zero32
  ELSE IF a.s = 1 THEN NaN32
  ELSE IF IsInf(a) THEN a
  ELSE LET ta == F32Bits - BitLen(a.m)
           e0 == a.e - ta
           odd == e0 % 2 # 0
           mm == IF odd THEN a.m * 2^ta * 2 ELSE a.m * 2^ta
           ee == IF odd THEN e0 - 1 ELSE e0
           rr == SqrtBits(mm, 26, <<0, 0>>)
       IN Round32(0, rr[1], ee \div 2 - 14, rr[2] # 0)

(***************************************************************************)
(* Natural numbers of any size: little-endian sequences of limbs below     *)
(* 2^14 with no leading zero limb (zero is << >>).  They carry the 53-bit  *)
(* mantissas of f64 and their products, quotients and roots.               *)
(***************************************************************************)
LimbBits == 14
Base == 2^LimbBits

Limb(x, i) == IF i >= 1 /\ i <= Len(x) THEN x[i] ELSE 0

RECURSIVE BigNorm(_)
BigNorm(x) ==
  IF Len(x) = 0 THEN <<>>
  ELSE IF x[Len(x)] = 0 THEN BigNorm(SubSeq(x, 1, Len(x) - 1))
  ELSE x

RECURSIVE BigFromInt(_)
BigFromInt(n) == IF n = 0 THEN <<>> ELSE <<n % Base>> \o BigFromInt(n \div Base)

RECURSIVE BigAddC(_, _, _, _)
BigAddC(x, y, i, c) ==
  IF i > Len(x) /\ i > Len(y) THEN (IF c = 0 THEN <<>> ELSE <<c>>)
  ELSE LET t == Limb(x, i) + Limb(y, i) + c
       IN <<t % Base>> \o BigAddC(x, y, i + 1, t \div Base)

BigAdd(x, y) == BigAddC(x, y, 1, 0)

RECURSIVE BigSubC(_, _, _, _)
BigSubC(x, y, i, c) ==
  IF i > Len(x) THEN <<>>
  ELSE LET t == x[i] - Limb(y, i) - c
       IN <<t % Base>> \o BigSubC(x, y, i + 1, IF t < 0 THEN 1 ELSE 0)

\* x - y for x >= y.
BigSub(x, y) == BigNorm(BigSubC(x, y, 1, 0))

\* -1, 0 or 1 as x < y, x = y or x > y.
BigCmp(x, y) ==
  IF Len(x) # Len(y) THEN (IF Len(x) < Len(y) THEN -1 ELSE 1)
  ELSE LET diff == {i \in 1..Len(x) : x[i] # y[i]}
       IN IF diff = {} THEN 0
          ELSE LET t == CHOOSE i \in diff : \A j \in diff : j <= i
               IN IF x[t] < y[t] THEN -1 ELSE 1

RECURSIVE BigMulSmallC(_, _, _, _)
BigMulSmallC(x, d, i, c) ==
  IF i > Len(x) THEN (IF c = 0 THEN <<>> ELSE <<c>>)
  ELSE LET t == x[i] * d + c
       IN <<t % Base>> \o BigMulSmallC(x, d, i + 1, t \div Base)

\* x * d for 0 < d <= 2^14.
BigMulSmall(x, d) == BigMulSmallC(x, d, 1, 0)

BigShlLimbs(x, n) == IF Len(x) = 0 \/ n = 0 THEN x ELSE [i \in 1..n |-> 0] \o x

RECURSIVE BigMulAcc(_, _, _)
BigMulAcc(x, y, j) ==
  IF j > Len(y) THEN <<>>
  ELSE BigAdd(BigShlLimbs(BigNorm(BigMulSmall(x, y[j])), j - 1),
              BigMulAcc(x, y, j + 1))

BigMul(x, y) == BigNorm(BigMulAcc(x, y, 1))

\* x * 2^n
BigShl(x, n) == BigShlLimbs(BigMulSmall(x, 2^(n % LimbBits)), n \div LimbBits)

\* x \div 2^n
BigShr(x, n) ==
  LET w == n \div LimbBits
      b == n % LimbBits
      len == Len(x) - w
  IN IF len <= 0 THEN <<>>
     ELSE BigNorm([i \in 1..len |->
            (x[i + w] \div 2^b) + (Limb(x, i + w + 1) % 2^b) * 2^(LimbBits - b)])

\* Bit n of x (bit 0 is the lowest).
BigBit(x, n) == (Limb(x, n \div LimbBits + 1) \div 2^(n % LimbBits)) % 2

\* x % 2^n = 0
BigLowZero(x, n) ==
  /\ \A i \in 1..Min(Len(x), n \div LimbBits) : x[i] = 0
  /\ Limb(x, n \div LimbBits + 1) % 2^(n % LimbBits) = 0

BigBitLen(x) ==
  IF Len(x) = 0 THEN 0 ELSE LimbBits * (Len(x) - 1) + BitLen(x[Len(x)])

(***************************************************************************)
(* f64: binary64 arithmetic                                                *)
(***************************************************************************)
F64Bits == 53
F64EMin == -1074
F64EMax == 971

NaN64 == [k |-> "nan", s |-> 0, m |-> <<>>, e |-> 0]
Inf64(s) == [k |-> "inf", s |-> s, m |-> <<>>, e |-> 0]
Zero64 == [k |-> "fin", s |-> 0, m |-> <<>>, e |-> 0]
F64(s, m, e) == [k |-> "fin", s |-> s, m |-> m, e |-> e]

DIsZero(a) == a.k = "fin" /\ Len(a.m) = 0

\* Round (-1)^s * (M + f) * 2^e to f64, where 0 <= f < 1 and f > 0 iff st.
\* When st holds M has at least 55 bits.
Round64(s, M, e, st) ==
  IF Len(M) = 0 THEN Zero64
  ELSE LET L == BigBitLen(M)
           sh == Max(L - F64Bits, F64EMin - e)
       IN IF sh > L THEN Zero64
          ELSE LET q == IF sh <= 0 THEN BigShl(M, -sh) ELSE BigShr(M, sh)
                   up == /\ sh > 0
                         /\ BigBit(M, sh - 1) = 1
                         /\ (st \/ ~BigLowZero(M, sh - 1) \/ BigBit(q, 0) = 1)
                   q1 == IF up THEN BigAdd(q, <<1>>) ELSE q
                   over == BigBitLen(q1) > F64Bits
                   m2 == IF over THEN BigShr(q1, 1) ELSE q1
                   e2 == IF over THEN e + sh + 1 ELSE e + sh
               IN IF Len(m2) = 0 THEN Zero64
                  ELSE IF e2 > F64EMax THEN Inf64(s)
                  ELSE F64(s, m2, e2)

\* `x as f64`: exact.
DFromF32(a) ==
  IF a.k = "nan" THEN NaN64
  ELSE IF a.k = "inf" THEN Inf64(a.s)
  ELSE Round64(a.s, BigFromInt(a.m), a.e, FALSE)

DNeg(a) == IF a.k = "nan" \/ DIsZero(a) THEN a ELSE [a EXCEPT !.s = 1 - a.s]

\* |a| < |b| for finite non-zero a, b.
DMagLt(a, b) == a.e < b.e \/ (a.e = b.e /\ BigCmp(a.m, b.m) < 0)

\* a + b for finite non-zero a, b with |a| >= |b|.
DAddOrdered(a, b) ==
  LET d == a.e - b.e
  IN IF d >= 56 THEN a
     ELSE LET A == BigShl(a.m, d)
          IN IF a.s = b.s THEN Round64(a.s, BigAdd(A, b.m), b.e, FALSE)
             ELSE Round64(a.s, BigSub(A, b.m), b.e, FALSE)

DAdd(a, b) ==
  IF a.k = "nan" \/ b.k = "nan" THEN NaN64
  ELSE IF a.k = "inf" THEN (IF b.k = "inf" /\ a.s # b.s THEN NaN64 ELSE a)
  ELSE IF b.k = "inf" THEN b
  ELSE IF DIsZero(a) THEN b
  ELSE IF DIsZero(b) THEN a
  ELSE IF DMagLt(a, b) THEN DAddOrdered(b, a) ELSE DAddOrdered(a, b)

DMul(a, b) ==
  IF a.k = "nan" \/ b.k = "nan" THEN NaN64
  ELSE IF a.k = "inf" \/ b.k = "inf"
       THEN (IF DIsZero(a) \/ DIsZero(b) THEN NaN64 ELSE Inf64((a.s + b.s) % 2))
  ELSE IF DIsZero(a) \/ DIsZero(b) THEN Zero64
  ELSE Round64((a.s + b.s) % 2, BigMul(a.m, b.m), a.e + b.e, FALSE)

\* One bit of the long division by nb: qr = <<quotient digit, remainder>>.
DivBit(qr, nb) ==
  LET r2 == BigAdd(qr[2], qr[2])
  IN IF BigCmp(r2, nb) >= 0 THEN <<2 * qr[1] + 1, BigSub(r2, nb)>>
     ELSE <<2 * qr[1], r2>>

RECURSIVE DivBits(_, _, _)
\* n more bits of the long division by nb.
DivBits(qr, nb, n) ==
  LET nx == DivBit(qr, nb)
  IN IF nx[1] >= 0 /\ n = 1 THEN nx ELSE DivBits(nx, nb, n - 1)

RECURSIVE DivLimbs(_, _, _)
\* The next n limbs of the quotient of r by nb, lowest first, and the
\* remainder: <<limbs, remainder>>.
DivLimbs(r, nb, n) ==
  LET d == DivBits(<<0, r>>, nb, LimbBits)
  IN IF d[1] >= 0 /\ n = 1 THEN <<<<d[1]>>, d[2]>>
     ELSE LET rest == DivLimbs(d[2], nb, n - 1)
          IN <<rest[1] \o <<d[1]>>, rest[2]>>

DDiv(a, b) ==
  IF a.k = "nan" \/ b.k = "nan" THEN NaN64
  ELSE IF a.k = "inf" THEN (IF b.k = "inf" THEN NaN64 ELSE Inf64((a.s + b.s) % 2))
  ELSE IF b.k = "inf" THEN Zero64
  ELSE IF DIsZero(b) THEN (IF DIsZero(a) THEN NaN64 ELSE Inf64((a.s + b.s) % 2))
  ELSE IF DIsZero(a) THEN Zero64
  ELSE LET ta == F64Bits - BigBitLen(a.m)
           tb == F64Bits - BigBitLen(b.m)
           na == BigShl(a.m, ta)
           nb == BigShl(b.m, tb)
           q0 == IF BigCmp(na, nb) >= 0 THEN 1 ELSE 0
           r0 == IF q0 = 1 THEN BigSub(na, nb) ELSE na
           qr == DivLimbs(r0, nb, 4)
       IN Round64((a.s + b.s) % 2, BigNorm(qr[1] \o <<q0>>),
                  (a.e - ta) - (b.e - tb) - 4 * LimbBits, Len(qr[2]) # 0)

\* One step of the digit-by-digit square root on naturals of any size.
BigSqrtStep(rr, p) ==
  LET rem == BigAdd(BigMulSmall(rr[2], 4), BigFromInt(p))
      t == BigAdd(BigMulSmall(rr[1], 4), <<1>>)
  IN IF BigCmp(rem, t) >= 0
     THEN <<BigAdd(BigMulSmall(rr[1], 2), <<1>>), BigSub(rem, t)>>
     ELSE <<BigMulSmall(rr[1], 2), rem>>

\* Bits 2j+1, 2j of m.
BigPair(m, j) == 2 * BigBit(m, 2 * j + 1) + BigBit(m, 2 * j)

RECURSIVE BigSqrtBits(_, _, _)
\* Square root of m * 4^28 (m < 2^54), five steps at a time: steps j..j-4,
\* where step j >= 28 brings down pair j-28 of m and the later ones zeros.
BigSqrtBits(m, j, rr) ==
  LET P(i) == IF i >= 28 THEN BigPair(m, i - 28) ELSE 0
      s1 == BigSqrtStep(rr, P(j))
      s2 == BigSqrtStep(s1, P(j - 1))
      s3 == BigSqrtStep(s2, P(j - 2))
      s4 == BigSqrtStep(s3, P(j - 3))
      s5 == BigSqrtStep(s4, P(j - 4))
  IN IF Len(s5[1]) >= 0 /\ j = 4 THEN s5 ELSE BigSqrtBits(m, j - 5, s5)

DSqrt(a) ==
  IF a.k = "nan" THEN NaN64
  ELSE IF DIsZero(a) THEN Zero64
  ELSE IF a.s = 1 THEN NaN64
  ELSE IF a.k = "inf" THEN a
  ELSE LET ta == F64Bits - BigBitLen(a.m)
           e0 == a.e - ta
           odd == e0 % 2 # 0
           mm == IF odd THEN BigShl(a.m, ta + 1) ELSE BigShl(a.m, ta)
           ee == IF odd THEN e0 - 1 ELSE e0
           rr == BigSqrtBits(mm, 54, <<<<>>, <<>>>>)
       IN Round64(0, rr[1], ee \div 2 - 28, Len(rr[2]) # 0)

\* ---------------------------------------------------------------------------
\* Constants of main.rs, as the f32 value each literal denotes.
\* ---------------------------------------------------------------------------
ASPECT_RATIO == F32(0, 10485760, -21)        \* 5.0
MAX_X == F32(0, 14901161, 25)                \* 5.0E14
MIN_X == F32(1, 14901161, 25)
MAX_Y == F32(0, 14901161, 25)
MIN_Y == F32(1, 14901161, 25)
MAX_MASS == F32(0, 11911401, 76)             \* 9.0E29
MIN_MASS == F32(0, 14901161, 26)             \* 1.0E15
MAX_V == F32(0, 9216000, -10)                \* 9.0E03
MIN_V == F32(0, 16384000, -14)               \* 1.0E03
GRAVITATION == F32(0, 9612483, -57)          \* 6.67E-11
D_TIME == F32(0, 10000000, 1)                \* 2.0E07
D_TIME_HALF == F32(0, 10000000, 0)           \* 1.0E07
A_RIGHT_YEAR == F32(0, 8810312, 30)          \* 9.46E15

\* Literals that appear inside the systems.
Two32 == F32(0, 8388608, -22)                \* 2.0
SecondsPerYear == F32(0, 15770000, 1)        \* 3.154E7
Half64 == DFromF32(F32(0, 8388608, -24))     \* 0.5
MinusOne64 == DFromF32(F32(1, 8388608, -23)) \* -1.0

\* ---------------------------------------------------------------------------
\* BodyState
\* ---------------------------------------------------------------------------
BodyStateNew ==
  [mass |-> Zero32, x |-> Zero32, y |-> Zero32, vx |-> Zero32, vy |-> Zero32,
   ax |-> Zero32, ay |-> Zero32, vx_half |-> Zero32, vy_half |-> Zero32,
   x_new |-> Zero32, y_new |-> Zero32, vx_new |-> Zero32, vy_new |-> Zero32,
   ax_new |-> Zero32, ay_new |-> Zero32, disp_x |-> Zero32, disp_y |-> Zero32]

\* One iteration of the loop of init_bodies: the five sampled fields are set,
\* everything else keeps the value of BodyState::new().
Body(mass, x, y, vx, vy) ==
  [BodyStateNew EXCEPT !.mass = mass, !.x = x, !.y = y, !.vx = vx, !.vy = vy]

\* ---------------------------------------------------------------------------
\* leapfrog_step, pass by pass.  d is bodies.data.
\* ---------------------------------------------------------------------------
\* The first kick taken with the whole time step.
KickWholeStep(d) ==
  [i \in 1..Len(d) |->
     [d[i] EXCEPT !.vx_half = FAdd(d[i].vx, FMul(d[i].ax, D_TIME)),
                  !.vy_half = FAdd(d[i].vy, FMul(d[i].ay, D_TIME))]]

KickHalf(d) ==
  [i \in 1..Len(d) |->
     [d[i] EXCEPT !.vx_half = FAdd(d[i].vx, FMul(d[i].ax, D_TIME_HALF)),
                  !.vy_half = FAdd(d[i].vy, FMul(d[i].ay, D_TIME_HALF))]]

\* The drift taken with half the time step.
DriftHalfStep(d) ==
  [i \in 1..Len(d) |->
     [d[i] EXCEPT !.x_new = FAdd(d[i].x, FMul(d[i].vx_half, D_TIME_HALF)),
                  !.y_new = FAdd(d[i].y, FMul(d[i].vy_half, D_TIME_HALF))]]

Drift(d) ==
  [i \in 1..Len(d) |->
     [d[i] EXCEPT !.x_new = FAdd(d[i].x, FMul(d[i].vx_half, D_TIME)),
                  !.y_new = FAdd(d[i].y, FMul(d[i].vy_half, D_TIME))]]

\* The acceleration vector without the division by r.
AccelVecUnnormalised(a_mag, dx, dy, r) == <<FMul(a_mag, dx), FMul(a_mag, dy)>>

\* The inner loop body for one ordered pair i # j, one operator per line of
\* the code: the pair <<ax, ay>> added to body i, or <<>> when the cutoff
\* skips the pair.
AccelVec(a_mag, dx, dy, r) ==
  <<FDiv(FMul(a_mag, dx), r), FDiv(FMul(a_mag, dy), r)>>

\* The cutoff test as r >= A_RIGHT_YEAR.
AccelCutInclusive(mass, dx, dy, r2, r) ==
  IF ~FLt(r, A_RIGHT_YEAR) THEN <<>>
  ELSE <<FDiv(FMul(FDiv(FMul(GRAVITATION, mass), r2), dx), r),
         FDiv(FMul(FDiv(FMul(GRAVITATION, mass), r2), dy), r)>>

\* The force pass hardened to skip coincident bodies.
AccelCutGuarded(mass, dx, dy, r2, r) ==
  IF FGt(r, A_RIGHT_YEAR) \/ IsZero(r) THEN <<>>
  ELSE <<FDiv(FMul(FDiv(FMul(GRAVITATION, mass), r2), dx), r),
         FDiv(FMul(FDiv(FMul(GRAVITATION, mass), r2), dy), r)>>

AccelCut(mass, dx, dy, r2, r) ==
  IF FGt(r, A_RIGHT_YEAR) THEN <<>>
  ELSE AccelVec(FDiv(FMul(GRAVITATION, mass), r2), dx, dy, r)

AccelAt(mass, dx, dy, r2) == AccelCut(mass, dx, dy, r2, FSqrt(r2))

AccelOf(mass, dx, dy) ==
  AccelAt(mass, dx, dy, FAdd(FMul(dx, dx), FMul(dy, dy)))

\* The pair read at the positions from before the drift.
PairAccelPreDrift(d, i, j) ==
  AccelOf(d[j].mass, FSub(d[j].x, d[i].x), FSub(d[j].y, d[i].y))

PairAccel(d, i, j) ==
  AccelOf(d[j].mass, FSub(d[j].x_new, d[i].x_new), FSub(d[j].y_new, d[i].y_new))

\* ax_new += ax; ay_new += ay, unless the pair was skipped.
Accumulate(acc, c) ==
  IF c = <<>> THEN acc ELSE <<FAdd(acc[1], c[1]), FAdd(acc[2], c[2])>>

\* The inner loop over j for body i, from index j on, acc = <<ax_new, ay_new>>.
RECURSIVE AccelLoop(_, _, _, _)
AccelLoop(d, i, j, acc) ==
  IF j > Len(d) THEN acc
  ELSE IF i = j THEN AccelLoop(d, i, j + 1, acc)
  ELSE AccelLoop(d, i, j + 1, Accumulate(acc, PairAccel(d, i, j)))

SetAccel(b, acc) == [b EXCEPT !.ax_new = acc[1], !.ay_new = acc[2]]

ComputeAccel(d) ==
  [i \in 1..Len(d) |-> SetAccel(d[i], AccelLoop(d, i, 1, <<Zero32, Zero32>>))]

KickFull(d) ==
  [i \in 1..Len(d) |->
     [d[i] EXCEPT !.vx_new = FAdd(d[i].vx_half, FMul(d[i].ax_new, D_TIME_HALF)),
                  !.vy_new = FAdd(d[i].vy_half, FMul(d[i].ay_new, D_TIME_HALF))]]

Advance(d) ==
  [i \in 1..Len(d) |->
     [d[i] EXCEPT !.x = d[i].x_new, !.y = d[i].y_new,
                  !.vx = d[i].vx_new, !.vy = d[i].vy_new,
                  !.ax = d[i].ax_new, !.ay = d[i].ay_new]]

\* The five passes in the order of the code.
Integrate(d) == Advance(KickFull(ComputeAccel(Drift(KickHalf(d)))))

\* 0.5 * b.mass as f64 * v2, with v2 = (vx * vx + vy * vy) as f64.
KeTerm(b) ==
  DMul(DMul(Half64, DFromF32(b.mass)),
       DFromF32(FAdd(FMul(b.vx, b.vx), FMul(b.vy, b.vy))))

\* ke_sum over the bodies from index i on.
RECURSIVE KeLoop(_, _, _)
KeLoop(d, i, ke_sum) ==
  IF i > Len(d) THEN ke_sum
  ELSE KeLoop(d, i + 1, DAdd(ke_sum, KeTerm(d[i])))

\* The term of one pair i < j, or <<>> when the pair is skipped (r == 0.0).
PotentialAt(mass_i, mass_j, r) ==
  IF DIsZero(r) THEN <<>>
  ELSE <<DDiv(DMul(DMul(DMul(MinusOne64, DFromF32(GRAVITATION)),
                        DFromF32(mass_i)), DFromF32(mass_j)), r)>>

PotentialOf(mass_i, mass_j, dx, dy) ==
  PotentialAt(mass_i, mass_j, DSqrt(DAdd(DMul(dx, dx), DMul(dy, dy))))

PairPotential(d, i, j) ==
  PotentialOf(d[i].mass, d[j].mass,
              DFromF32(FSub(d[j].x, d[i].x)), DFromF32(FSub(d[j].y, d[i].y)))

\* pe_sum += term, unless the pair was skipped.
AddTerm(pe_sum, t) == IF t = <<>> THEN pe_sum ELSE DAdd(pe_sum, t[1])

\* pe_sum over all ordered pairs i # j: every pair counted twice.
RECURSIVE PeLoopOrdered(_, _, _, _)
PeLoopOrdered(d, i, j, pe_sum) ==
  IF i > Len(d) THEN pe_sum
  ELSE IF j > Len(d) THEN PeLoopOrdered(d, i + 1, 1, pe_sum)
  ELSE IF i = j THEN PeLoopOrdered(d, i, j + 1, pe_sum)
  ELSE PeLoopOrdered(d, i, j + 1, AddTerm(pe_sum, PairPotential(d, Min(i, j), Max(i, j))))

\* pe_sum over the pairs from <<i, j>> on, in the order of the two loops.
RECURSIVE PeLoop(_, _, _, _)
PeLoop(d, i, j, pe_sum) ==
  IF i > Len(d) THEN pe_sum
  ELSE IF j > Len(d) THEN PeLoop(d, i + 1, i + 2, pe_sum)
  ELSE PeLoop(d, i, j + 1, AddTerm(pe_sum, PairPotential(d, i, j)))

KineticEnergy(d) == KeLoop(d, 1, Zero64)
PotentialEnergy(d) == PeLoop(d, 1, 2, Zero64)

\* ---------------------------------------------------------------------------
\* State
\* ---------------------------------------------------------------------------
VARIABLES
  data,              \* Bodies.data
  elapsed_time,      \* Bodies.elapsed_time (f32)
  kinetic_energy,    \* Bodies.kinetic_energy (f64)
  potential_energy,  \* Bodies.potential_energy (f64)
  changed,           \* Bodies was added or mutably borrowed since
                     \* update_ui_texts last ran: what is_changed() answers
  window,            \* the primary window, [open, width, height]
  translation,       \* Transform.translation of the sprite of each body
  texts,             \* the values shown by the three UI texts
  pending,           \* systems of the Update schedule not yet run this frame
  steps              \* number of completed calls of leapfrog_step

vars == <<data, elapsed_time, kinetic_energy, potential_energy, changed,
          window, translation, texts, pending, steps>>

\* Number of frames explored.
MaxSteps == 3

\* The tuple given to add_systems(Update, ...): no ordering between the three.
Systems == {"leapfrog_step", "update_visuals", "update_ui_texts"}

FAbs(a) == IF a.k = "nan" THEN a ELSE [a EXCEPT !.s = 0]
FLe(a, b) == ~IsNaN(a) /\ ~IsNaN(b) /\ ~FLt(b, a)

\* What init_bodies can produce for one body: r * (MAX - MIN) + MIN with
\* r in [0, 1) for mass and position, and a speed of either sign.
Sampled(b) ==
  /\ FLe(MIN_MASS, b.mass) /\ FLe(b.mass, MAX_MASS)
  /\ FLe(MIN_X, b.x) /\ FLe(b.x, MAX_X)
  /\ FLe(MIN_Y, b.y) /\ FLe(b.y, MAX_Y)
  /\ FLe(MIN_V, FAbs(b.vx)) /\ FLe(FAbs(b.vx), MAX_V)
  /\ FLe(MIN_V, FAbs(b.vy)) /\ FLe(FAbs(b.vy), MAX_V)
  /\ b = Body(b.mass, b.x, b.y, b.vx, b.vy)

\* Draws of the random generator, as (mass, x, y, vx, vy) per body.
\* (3e29, 1e14, -2e14, 3000, -7000); (8e29, -3e14, 1e14, -2500, 4000);
\* (5e28, 2e14, 3e14, 1500, -1200)
ThreeBodies ==
  <<Body(F32(0, 15881868, 74), F32(0, 11920929, 23), F32(1, 11920929, 24),
         F32(0, 12288000, -12), F32(1, 14336000, -11)),
    Body(F32(0, 10587912, 76), F32(1, 8940697, 25), F32(0, 11920929, 23),
         F32(1, 10240000, -12), F32(0, 16384000, -12)),
    Body(F32(0, 10587912, 72), F32(0, 11920929, 24), F32(0, 8940697, 25),
         F32(0, 12288000, -13), F32(1, 9830400, -13))>>

\* Two heavy bodies that are 1e8 m apart after the first drift and are thrown
\* more than a light year away from everything by the second.
\* (9e29, 0, 0, 2000, 2000); (9e29, 8.01e10, 0, -2000, 2000);
\* (4e29, 3e14, 1e14, -5000, 3000)
CloseEncounter ==
  <<Body(F32(0, 11911401, 76), Zero32, Zero32,
         F32(0, 16384000, -13), F32(0, 16384000, -13)),
    Body(F32(0, 11911401, 76), F32(0, 9777832, 13), Zero32,
         F32(1, 16384000, -13), F32(0, 16384000, -13)),
    Body(F32(0, 10587912, 75), F32(0, 8940697, 25), F32(0, 11920929, 23),
         F32(1, 10240000, -11), F32(0, 12288000, -12))>>

\* Two bodies whose first drift ends at the same point (2.048e10, 2.048e10).
\* (9e29, 0, 0, 1024, 1024); (5e29, 4.096e10, 0, -1024, 1024);
\* (4e29, 3e14, 1e14, -5000, 3000)
Collision ==
  <<Body(F32(0, 11911401, 76), Zero32, Zero32,
         F32(0, 8388608, -13), F32(0, 8388608, -13)),
    Body(F32(0, 13234890, 75), F32(0, 10000000, 12), Zero32,
         F32(1, 8388608, -13), F32(0, 8388608, -13)),
    Body(F32(0, 10587912, 75), F32(0, 8940697, 25), F32(0, 11920929, 23),
         F32(1, 10240000, -11), F32(0, 12288000, -12))>>

\* (3e29, 1e14, -2e14, 3000, -7000)
OneBody ==
  <<Body(F32(0, 15881868, 74), F32(0, 11920929, 23), F32(1, 11920929, 24),
         F32(0, 12288000, -12), F32(1, 14336000, -11))>>

\* (3e29, 1e14, -2e14, 3000, -7000); (8e29, -3e14, 1e14, -2500, 4000)
TwoBodies ==
  <<Body(F32(0, 15881868, 74), F32(0, 11920929, 23), F32(1, 11920929, 24),
         F32(0, 12288000, -12), F32(1, 14336000, -11)),
    Body(F32(0, 10587912, 76), F32(1, 8940697, 25), F32(0, 11920929, 23),
         F32(1, 10240000, -12), F32(0, 16384000, -12))>>

Draws == {ThreeBodies, CloseEncounter, Collision, OneBody, TwoBodies}

\* The values init_bodies returns (NUM_BODIES scaled down to 1..3).
init_bodies ==
  {[data |-> d, elapsed_time |-> Zero32,
    kinetic_energy |-> Zero64, potential_energy |-> Zero64] :
     d \in {c \in Draws : \A i \in 1..Len(c) : Sampled(c[i])}}

\* The primary window of main: 800 x 800; update_visuals also handles the
\* case that no primary window is found.
Windows ==
  {[open |-> TRUE, width |-> F32(0, 13107200, -14), height |-> F32(0, 13107200, -14)],
   [open |-> FALSE, width |-> Zero32, height |-> Zero32]}

\* State after insert_resource(b), with window w, and the Startup system:
\* one sprite per body at the origin, three texts showing 0.00E+00.
setup(b, w) ==
  /\ data = b.data
  /\ elapsed_time = b.elapsed_time
  /\ kinetic_energy = b.kinetic_energy
  /\ potential_energy = b.potential_energy
  /\ changed = TRUE
  /\ window = w
  /\ translation = [i \in 1..Len(b.data) |-> [x |-> Zero32, y |-> Zero32, z |-> Zero32]]
  /\ texts = [elapsed_year |-> Zero32, kinetic_energy |-> Zero64,
              potential_energy |-> Zero64]
  /\ pending = Systems
  /\ steps = 0

Init == \E b \in init_bodies, w \in Windows : setup(b, w)

\* ---------------------------------------------------------------------------
\* Systems
\* ---------------------------------------------------------------------------
\* Step with the clock advanced by half a time step.
StepHalfClock ==
  /\ data' = Integrate(data)
  /\ kinetic_energy' = KineticEnergy(data')
  /\ potential_energy' = PotentialEnergy(data')
  /\ elapsed_time' = FAdd(elapsed_time, D_TIME_HALF)
  /\ changed' = TRUE
  /\ steps' = steps + 1

\* The whole body of leapfrog_step on the Bodies resource.
Step ==
  /\ data' = Integrate(data)
  /\ kinetic_energy' = KineticEnergy(data')
  /\ potential_energy' = PotentialEnergy(data')
  /\ elapsed_time' = FAdd(elapsed_time, D_TIME)
  /\ changed' = TRUE
  /\ steps' = steps + 1

leapfrog_step ==
  /\ "leapfrog_step" \in pending
  /\ pending' = pending \ {"leapfrog_step"}
  /\ Step
  /\ UNCHANGED <<window, translation, texts>>

\* disp_x_conv, disp_y_conv and half_x, half_y of update_visuals.
DispConv(size, max) == FDiv(FDiv(FDiv(size, Two32), max), ASPECT_RATIO)
HalfSize(size) == FDiv(size, Two32)

\* The loop of update_visuals writing the screen coordinates into x and y.
DisplayedInPlace(d, w) ==
  [i \in 1..Len(d) |->
     [d[i] EXCEPT
        !.x = FAdd(FMul(d[i].x, DispConv(w.width, MAX_X)), HalfSize(w.width)),
        !.y = FAdd(FMul(d[i].y, DispConv(w.height, MAX_Y)), HalfSize(w.height))]]

\* The loop of update_visuals over the sprites, for window w.
Displayed(d, w) ==
  [i \in 1..Len(d) |->
     [d[i] EXCEPT
        !.disp_x = FAdd(FMul(d[i].x, DispConv(w.width, MAX_X)), HalfSize(w.width)),
        !.disp_y = FAdd(FMul(d[i].y, DispConv(w.height, MAX_Y)), HalfSize(w.height))]]

Translated(d, w) ==
  [i \in 1..Len(d) |->
     [x |-> FSub(d[i].disp_x, HalfSize(w.width)),
      y |-> FSub(d[i].disp_y, HalfSize(w.height)),
      z |-> Zero32]]

update_visuals ==
  /\ "update_visuals" \in pending
  /\ pending' = pending \ {"update_visuals"}
  /\ IF window.open
     THEN /\ data' = Displayed(data, window)
          /\ translation' = Translated(data', window)
          /\ changed' = (changed \/ Len(data) > 0)
     ELSE UNCHANGED <<data, translation, changed>>
  /\ UNCHANGED <<elapsed_time, kinetic_energy, potential_energy, window,
                 texts, steps>>

Shown ==
  [elapsed_year |-> FDiv(elapsed_time, SecondsPerYear),
   kinetic_energy |-> kinetic_energy,
   potential_energy |-> potential_energy]

update_ui_texts ==
  /\ "update_ui_texts" \in pending
  /\ pending' = pending \ {"update_ui_texts"}
  /\ texts' = IF changed THEN Shown ELSE texts
  /\ changed' = FALSE
  /\ UNCHANGED <<data, elapsed_time, kinetic_energy, potential_energy,
                 window, translation, steps>>

\* App::run: once every system of the schedule has run, the next frame starts.
next_frame ==
  /\ pending = {}
  /\ steps < MaxSteps
  /\ pending' = Systems
  /\ UNCHANGED <<data, elapsed_time, kinetic_energy, potential_energy,
                 changed, window, translation, texts, steps>>

Next == leapfrog_step \/ update_visuals \/ update_ui_texts \/ next_frame

Spec == Init /\ [][Next]_vars

\* ---------------------------------------------------------------------------
\* A long run of the application with a single body.
\* ---------------------------------------------------------------------------
MaxLongSteps == 216

next_frame_long ==
  /\ pending = {}
  /\ steps < MaxLongSteps
  /\ pending' = Systems
  /\ UNCHANGED <<data, elapsed_time, kinetic_energy, potential_energy,
                 changed, window, translation, texts, steps>>

InitLong ==
  \E b \in {c \in init_bodies : c.data = OneBody}, w \in Windows : setup(b, w)

NextLong == leapfrog_step \/ update_visuals \/ update_ui_texts \/ next_frame_long

SpecLong == InitLong /\ [][NextLong]_vars

\* ---------------------------------------------------------------------------
\* leapfrog_step called directly on a given Bodies value, outside the schedule.
\* ---------------------------------------------------------------------------
Closed == [open |-> FALSE, width |-> Zero32, height |-> Zero32]

\* A Bodies value with the given body records and zero clock and energies.
BodiesOf(d) ==
  [data |-> d, elapsed_time |-> Zero32,
   kinetic_energy |-> Zero64, potential_energy |-> Zero64]

harness(d) ==
  /\ data = d
  /\ elapsed_time = Zero32
  /\ kinetic_energy = Zero64
  /\ potential_energy = Zero64
  /\ changed = TRUE
  /\ window = Closed
  /\ translation = [i \in 1..Len(d) |-> [x |-> Zero32, y |-> Zero32, z |-> Zero32]]
  /\ texts = [elapsed_year |-> Zero32, kinetic_energy |-> Zero64,
              potential_energy |-> Zero64]
  /\ pending = {}
  /\ steps = 0

\* A body at rest.
AtRest(mass, x, y) == Body(mass, x, y, Zero32, Zero32)

\* m1 = m2 = 1.0E27, 1.0E13 apart on the x axis, zero velocity.
TwoBodiesAtRest ==
  <<AtRest(F32(0, 13552527, 66), Zero32, Zero32),
    AtRest(F32(0, 13552527, 66), F32(0, 9536743, 20), Zero32)>>

\* Number of calls in the two-body run.
MaxEnergySteps == 300

leapfrog_two_body ==
  /\ steps < MaxEnergySteps
  /\ Step
  /\ UNCHANGED <<window, translation, texts, pending>>

InitTwoBody == harness(TwoBodiesAtRest)

SpecTwoBody == InitTwoBody /\ [][leapfrog_two_body]_vars

\* Positions of a second body relative to one at the origin: near, far,
\* exactly at the cutoff, one unit in the last place beyond it, on both axes,
\* off the axes (3-4-5 triangles), so far that r2 overflows, and coincident.
Separations ==
  {<<F32(0, 12500000, 3), Zero32>>,                 \* 1e8 on x
   <<F32(0, 9536743, 20), Zero32>>,                 \* 1e13 on x
   <<A_RIGHT_YEAR, Zero32>>,                        \* r = cutoff
   <<F32(0, 8810313, 30), Zero32>>,                 \* just beyond
   <<F32(1, 8810312, 30), Zero32>>,
   <<F32(1, 8810313, 30), Zero32>>,
   <<Zero32, A_RIGHT_YEAR>>,
   <<Zero32, F32(0, 8810313, 30)>>,
   <<F32(0, 9313226, 31), Zero32>>,                 \* 2e16
   <<F32(0, 11368684, 43), Zero32>>,                \* 1e20
   <<F32(0, 12582912, 28), F32(0, 8388608, 29)>>,   \* r = 5 * 2^50
   <<F32(0, 12582912, 29), F32(0, 8388608, 30)>>,   \* r = 10 * 2^50
   <<F32(1, 9536743, 20), F32(0, 9536743, 20)>>,
   <<Zero32, Zero32>>}

SnapshotMasses == {MIN_MASS, MAX_MASS, F32(0, 13552527, 66)}

Snapshots ==
  {<<AtRest(F32(0, 13552527, 66), Zero32, Zero32), AtRest(m, p[1], p[2])>> :
     m \in SnapshotMasses, p \in Separations}
  \cup
  {<<AtRest(MAX_MASS, Zero32, Zero32),
     AtRest(m, p[1], p[2]),
     AtRest(F32(0, 13552527, 66), Zero32, F32(1, 9536743, 20))>> :
     m \in {MIN_MASS}, p \in Separations}
  \cup {<<AtRest(MAX_MASS, Zero32, Zero32)>>}

\* Number of calls from each snapshot.
MaxCalls == 2

leapfrog_call ==
  /\ steps < MaxCalls
  /\ Step
  /\ UNCHANGED <<window, translation, texts, pending>>

InitSnapshot == \E d \in Snapshots : harness(d)

SpecForcePass == InitSnapshot /\ [][leapfrog_call]_vars

\* ---------------------------------------------------------------------------
\* Properties
\* ---------------------------------------------------------------------------
\* The integer a finite non-negative f32 with exponent >= 0 denotes.
IntValue(a) == BigShl(BigFromInt(a.m), a.e)

\* a is the real number k * D_TIME.
ExactMultiple(a, k) ==
  /\ IsFinite(a) /\ a.s = 0 /\ a.e >= 0
  /\ BigNorm(IntValue(a)) = BigNorm(BigMulSmall(IntValue(D_TIME), k))

\* C3 as stated: after k calls of leapfrog_step elapsed_time is exactly
\* k * D_TIME.
C3_ElapsedIsExactMultiple == ExactMultiple(elapsed_time, steps)

\* C3: elapsed_time is 0.0 after init_bodies; a call of leapfrog_step replaces
\* it by the f32 sum elapsed_time + D_TIME, which never decreases it; no other
\* system writes it; it is exactly k * D_TIME for the first 214 calls.
C3_ElapsedTime ==
  [][/\ steps = 0 => elapsed_time = Zero32
     /\ steps' = steps + 1 =>
          /\ elapsed_time' = FAdd(elapsed_time, D_TIME)
          /\ FLe(elapsed_time, elapsed_time')
     /\ steps' = steps => elapsed_time' = elapsed_time
     /\ steps' <= 214 => ExactMultiple(elapsed_time', steps')]_vars

\* The 215th call has run and the clock is no longer a multiple of D_TIME.
C3_Witness ==
  /\ steps = 215
  /\ elapsed_time = F32(0, 8398438, 9)
  /\ ~ExactMultiple(elapsed_time, steps)
  /\ pending = {}

\* dt/2 and the half kick v + a * dt/2 of the leapfrog scheme.
HalfStep == FDiv(D_TIME, Two32)
HalfKick(v, a) == FAdd(v, FMul(a, HalfStep))

\* The force pass applied to the committed positions of d: <<ax, ay>> per body.
Committed(d) ==
  [i \in 1..Len(d) |-> [d[i] EXCEPT !.x_new = d[i].x, !.y_new = d[i].y]]
Evaluate(d) ==
  [i \in 1..Len(d) |-> AccelLoop(Committed(d), i, 1, <<Zero32, Zero32>>)]

\* C1: a call of leapfrog_step commits, per coordinate,
\* position = x + (v + a*dt/2)*dt and velocity = (v + a*dt/2) + a_new*dt/2,
\* a_new being the force pass on the drifted positions; on the first call the
\* stored a is (0, 0) and the drift uses the initial velocity.
C1_KickDriftKick ==
  [][steps' = steps + 1 =>
       \A i \in 1..Len(data) :
         /\ data'[i].x = FAdd(data[i].x, FMul(HalfKick(data[i].vx, data[i].ax), D_TIME))
         /\ data'[i].y = FAdd(data[i].y, FMul(HalfKick(data[i].vy, data[i].ay), D_TIME))
         /\ data'[i].vx = FAdd(HalfKick(data[i].vx, data[i].ax),
                               FMul(Evaluate(data')[i][1], HalfStep))
         /\ data'[i].vy = FAdd(HalfKick(data[i].vy, data[i].ay),
                               FMul(Evaluate(data')[i][2], HalfStep))
         /\ steps = 0 =>
              /\ data[i].ax = Zero32 /\ data[i].ay = Zero32
              /\ data'[i].x = FAdd(data[i].x, FMul(data[i].vx, D_TIME))
              /\ data'[i].y = FAdd(data[i].y, FMul(data[i].vy, D_TIME))]_vars

\* Two steps of three interacting bodies: the second started from non-zero
\* accelerations.
C1_Witness ==
  /\ steps = 2 /\ Len(data) = 3
  /\ \A i \in 1..3 : IsFinite(data[i].vx) /\ IsFinite(data[i].ax) /\ ~IsZero(data[i].ax)

\* C2: after every completed leapfrog_step the stored acceleration of each
\* body is the force pass evaluated on the committed positions of all bodies,
\* and the committed positions are the drifted positions the pass read.
C2_AccelerationOfCommittedPositions ==
  steps >= 1 =>
    \A i \in 1..Len(data) :
      /\ data[i].x = data[i].x_new /\ data[i].y = data[i].y_new
      /\ <<data[i].ax, data[i].ay>> = Evaluate(data)[i]

\* Three steps of three bodies that all moved and all attract each other.
C2_Witness ==
  /\ steps = 3 /\ Len(data) = 3
  /\ \A i \in 1..3 : /\ IsFinite(data[i].ax) /\ ~IsZero(data[i].ax)
                     /\ IsFinite(data[i].ay) /\ ~IsZero(data[i].ay)
                     /\ data[i].x # ThreeBodies[i].x

\* The body records without the display fields.
Physical(d) ==
  [i \in 1..Len(d) |-> [d[i] EXCEPT !.disp_x = Zero32, !.disp_y = Zero32]]

\* C5 as stated: only leapfrog_step changes the Bodies resource.
C5_OnlyIntegratorMutates ==
  [][steps' = steps =>
       /\ data' = data /\ elapsed_time' = elapsed_time
       /\ kinetic_energy' = kinetic_energy
       /\ potential_energy' = potential_energy]_vars

\* C5: every field of Bodies other than disp_x and disp_y is changed only by
\* leapfrog_step, which leaves disp_x and disp_y alone; the only other write
\* is update_visuals setting disp_x and disp_y when a primary window exists.
C5_OnlyDisplayFieldsWrittenOutsideStep ==
  [][/\ steps' = steps =>
          /\ Physical(data') = Physical(data)
          /\ elapsed_time' = elapsed_time
          /\ kinetic_energy' = kinetic_energy
          /\ potential_energy' = potential_energy
     /\ steps' = steps + 1 =>
          \A i \in 1..Len(data) : /\ data'[i].disp_x = data[i].disp_x
                                  /\ data'[i].disp_y = data[i].disp_y
     /\ (steps' = steps /\ data' # data) =>
          /\ window.open
          /\ "update_visuals" \in pending /\ "update_visuals" \notin pending']_vars

\* update_visuals has written the display fields of a body after a step.
C5_Witness ==
  /\ steps >= 1 /\ "update_visuals" \notin pending
  /\ \E i \in 1..Len(data) :
       /\ ~IsZero(data[i].disp_x)
       /\ data[i].disp_x = FAdd(FMul(data[i].x, DispConv(window.width, MAX_X)),
                                HalfSize(window.width))

\* C6 as stated: in every frame leapfrog_step has completed before
\* update_visuals or update_ui_texts runs.
C6_StepBeforeReaders ==
  [][(\E r \in {"update_visuals", "update_ui_texts"} :
        r \in pending /\ r \notin pending')
     => "leapfrog_step" \notin pending]_vars

\* The unordered pairs of n bodies, each once, in the order i < j ascending.
AllPairs(n) == {p \in (1..n) \X (1..n) : p[1] < p[2]}
PairBefore(p, q) == p[1] < q[1] \/ (p[1] = q[1] /\ p[2] < q[2])
PairSeq(n) ==
  CHOOSE ps \in [1..((n * (n - 1)) \div 2) -> AllPairs(n)] :
    \A a, b \in DOMAIN ps : a < b => PairBefore(ps[a], ps[b])

\* r_ij of the committed positions in f64, and -G * m_i * m_j / r_ij.
Distance64(d, p) ==
  DSqrt(DAdd(DMul(DFromF32(FSub(d[p[2]].x, d[p[1]].x)),
                  DFromF32(FSub(d[p[2]].x, d[p[1]].x))),
             DMul(DFromF32(FSub(d[p[2]].y, d[p[1]].y)),
                  DFromF32(FSub(d[p[2]].y, d[p[1]].y)))))
NewtonTerm(d, p) ==
  DDiv(DMul(DMul(DNeg(DFromF32(GRAVITATION)), DFromF32(d[p[1]].mass)),
            DFromF32(d[p[2]].mass)),
       Distance64(d, p))

\* Sum of the terms of the pairs ps[k..], added to acc in that order.
RECURSIVE SumTerms(_, _, _, _)
SumTerms(d, ps, k, acc) ==
  IF k > Len(ps) THEN acc
  ELSE SumTerms(d, ps, k + 1, DAdd(acc, NewtonTerm(d, ps[k])))

Apart(d, p) == ~DIsZero(Distance64(d, p))

\* C7 as stated: potential_energy is the sum of -G*m_i*m_j/r_ij over all
\* N*(N-1)/2 unordered pairs of the committed positions.
C7_AllPairsCounted ==
  steps >= 1 =>
    potential_energy = SumTerms(data, PairSeq(Len(data)), 1, Zero64)

\* C7: after every leapfrog_step potential_energy is recomputed from the
\* committed positions as the sum of -G*m_i*m_j/r_ij over the unordered pairs
\* i < j with r_ij # 0, each once, pairs beyond the force cutoff included;
\* a pair of coincident bodies contributes nothing.
C7_PairsApartCounted ==
  steps >= 1 =>
    potential_energy =
      SumTerms(data, SelectSeq(PairSeq(Len(data)), LAMBDA p : Apart(data, p)),
               1, Zero64)

\* Two of three bodies coincide: their pair is left out, the other two pairs
\* give a finite non-zero potential energy.
C7_Witness ==
  /\ steps >= 1 /\ Len(data) = 3
  /\ \E p \in AllPairs(3) : IsFinite(data[p[1]].x) /\ ~Apart(data, p)
  /\ potential_energy.k = "fin" /\ ~DIsZero(potential_energy)

\* Bodies i and j end the drift of the step at the same finite point.
Coincide(d, i, j) ==
  /\ i # j
  /\ IsFinite(d[i].x_new) /\ IsFinite(d[i].y_new)
  /\ d[i].x_new = d[j].x_new /\ d[i].y_new = d[j].y_new

Poisoned(b) == IsNaN(b.ax) /\ IsNaN(b.ay) /\ IsNaN(b.vx) /\ IsNaN(b.vy)

\* C9: when two distinct bodies have identical drifted positions, the step
\* commits NaN into the acceleration and velocity of both and still advances
\* elapsed_time by D_TIME; a body with NaN acceleration and velocity keeps
\* them in every later step.
C9_CoincidencePoisons ==
  [][steps' = steps + 1 =>
       /\ \A i, j \in 1..Len(data) :
            Coincide(data', i, j) =>
              /\ Poisoned(data'[i]) /\ Poisoned(data'[j])
              /\ elapsed_time' = FAdd(elapsed_time, D_TIME)
              /\ FLt(elapsed_time, elapsed_time')
       /\ \A i \in 1..Len(data) :
            (steps >= 1 /\ Poisoned(data[i])) => Poisoned(data'[i])]_vars

\* The step in which two bodies met has been committed.
C9_Witness ==
  /\ steps = 1
  /\ \E i, j \in 1..Len(data) :
       /\ Coincide(data, i, j) /\ data[i].x = data[j].x
       /\ Poisoned(data[i]) /\ Poisoned(data[j])
  /\ elapsed_time = D_TIME

\* r of the drifted positions of bodies i and j, as the force pass computes it.
Distance(d, i, j) ==
  FSqrt(FAdd(FMul(FSub(d[j].x_new, d[i].x_new), FSub(d[j].x_new, d[i].x_new)),
             FMul(FSub(d[j].y_new, d[i].y_new), FSub(d[j].y_new, d[i].y_new))))

\* Every other body is farther than the cutoff: the test of the force pass.
Isolated(d, i) ==
  \A j \in 1..Len(d) : j # i => FGt(Distance(d, i, j), A_RIGHT_YEAR)

\* Magnitude of a finite f32 in units of 2^e0, and the two sides of a balance.
Mag(a, e0) == IF a.m = 0 THEN <<>> ELSE BigShl(BigFromInt(a.m), a.e - e0)
Credit(s, M) == IF s = 0 THEN M ELSE <<>>
Debit(s, M) == IF s = 1 THEN M ELSE <<>>

\* x = x0 + k * D_TIME * v as real numbers, for finite x, x0, v.
ExactDrift(x, x0, v, k) ==
  LET e0 == Min(Min(x.e, x0.e), v.e + D_TIME.e)
      X == Mag(x, e0)
      X0 == Mag(x0, e0)
      T == BigMulSmall(BigShl(BigMul(BigFromInt(v.m), BigFromInt(D_TIME.m)),
                              v.e + D_TIME.e - e0), k)
  IN /\ IsFinite(x)
     /\ BigNorm(BigAdd(BigAdd(Credit(x.s, X), Debit(x0.s, X0)), Debit(v.s, T)))
        = BigNorm(BigAdd(BigAdd(Debit(x.s, X), Credit(x0.s, X0)), Credit(v.s, T)))

\* C10 as stated, for a body that is alone: acceleration (0, 0), the initial
\* velocity, and position = initial position + k * D_TIME * velocity.
C10_StraightLineExact ==
  \A c \in Draws :
    (Len(c) = 1 /\ Len(data) = 1) =>
      /\ data[1].ax = Zero32 /\ data[1].ay = Zero32
      /\ data[1].vx = c[1].vx /\ data[1].vy = c[1].vy
      /\ ExactDrift(data[1].x, c[1].x, c[1].vx, steps)
      /\ ExactDrift(data[1].y, c[1].y, c[1].vy, steps)

\* C10: a step that starts with stored acceleration (0, 0) for a body and in
\* which every other body is farther than the cutoff from it at the drifted
\* positions (r > A_RIGHT_YEAR, false for a NaN distance) leaves its
\* acceleration (0, 0) and its velocity unchanged and adds the f32 product
\* velocity * D_TIME to its position with f32 rounding.
C10_IsolatedBodyDrifts ==
  [][steps' = steps + 1 =>
       \A i \in 1..Len(data) :
         (data[i].ax = Zero32 /\ data[i].ay = Zero32 /\ Isolated(data', i)) =>
           /\ data'[i].ax = Zero32 /\ data'[i].ay = Zero32
           /\ data'[i].vx = data[i].vx /\ data'[i].vy = data[i].vy
           /\ data'[i].x = FAdd(data[i].x, FMul(data[i].vx, D_TIME))
           /\ data'[i].y = FAdd(data[i].y, FMul(data[i].vy, D_TIME))]_vars

\* Three bodies more than a light year from each other have drifted for a
\* step with zero acceleration.
C10_Witness ==
  /\ steps = 3 /\ Len(data) = 3
  /\ \A i \in 1..3 :
       /\ Isolated(data, i) /\ IsFinite(data[i].x)
       /\ data[i].ax = Zero32 /\ data[i].ay = Zero32
       /\ data[i].x = data[i].x_new
       /\ data[i].vx = data[i].vx_half /\ data[i].vx_half = data[i].vx_new

\* What body j adds to the acceleration of body i at the drifted positions:
\* nothing beyond the cutoff, otherwise G * m_j / r^2 along the displacement.
Contribution(d, i, j) ==
  IF FGt(Distance(d, i, j), A_RIGHT_YEAR) THEN <<Zero32, Zero32>>
  ELSE <<FDiv(FMul(FDiv(FMul(GRAVITATION, d[j].mass),
                        FAdd(FMul(FSub(d[j].x_new, d[i].x_new),
                                  FSub(d[j].x_new, d[i].x_new)),
                             FMul(FSub(d[j].y_new, d[i].y_new),
                                  FSub(d[j].y_new, d[i].y_new)))),
                   FSub(d[j].x_new, d[i].x_new)),
              Distance(d, i, j)),
         FDiv(FMul(FDiv(FMul(GRAVITATION, d[j].mass),
                        FAdd(FMul(FSub(d[j].x_new, d[i].x_new),
                                  FSub(d[j].x_new, d[i].x_new)),
                             FMul(FSub(d[j].y_new, d[i].y_new),
                                  FSub(d[j].y_new, d[i].y_new)))),
                   FSub(d[j].y_new, d[i].y_new)),
              Distance(d, i, j))>>

\* The contributions of the bodies js[k..] to body i, added in that order.
RECURSIVE SumContributions(_, _, _, _, _)
SumContributions(d, i, js, k, acc) ==
  IF k > Len(js) THEN acc
  ELSE SumContributions(d, i, js, k + 1,
         <<FAdd(acc[1], Contribution(d, i, js[k])[1]),
           FAdd(acc[2], Contribution(d, i, js[k])[2])>>)

\* The other bodies, in index order.
Others(d, i) == SelectSeq([j \in 1..Len(d) |-> j], LAMBDA j : j # i)

FirstEnergy ==
  DAdd(KineticEnergy(Integrate(TwoBodiesAtRest)),
       PotentialEnergy(Integrate(TwoBodiesAtRest)))

\* |E| in units of 2^e0.
DMag(E, e0) == BigNorm(BigShl(E.m, E.e - e0))
BigDist(A, B) == IF BigCmp(A, B) >= 0 THEN BigSub(A, B) ELSE BigSub(B, A)

\* 100 * |E - E1| <= |E1| as real numbers, for finite E and E1.
Within1Percent(E, E1) ==
  /\ E.k = "fin" /\ E1.k = "fin"
  /\ BigCmp(BigNorm(BigMulSmall(
              IF E.s = E1.s
              THEN BigDist(DMag(E, Min(E.e, E1.e)), DMag(E1, Min(E.e, E1.e)))
              ELSE BigNorm(BigAdd(DMag(E, Min(E.e, E1.e)), DMag(E1, Min(E.e, E1.e)))),
              100)),
            DMag(E1, Min(E.e, E1.e))) <= 0

\* C8: from TwoBodiesAtRest, kinetic_energy + potential_energy after every
\* call up to several hundred is within 1% of its value after the first call.
C8_EnergyWithinOnePercent ==
  steps >= 1 => Within1Percent(DAdd(kinetic_energy, potential_energy), FirstEnergy)

\* 300 calls have run; the bodies have gained speed and are still apart.
C8_Witness ==
  /\ steps = 300
  /\ ~DIsZero(kinetic_energy) /\ kinetic_energy.k = "fin"
  /\ FLt(data[1].x, data[2].x) /\ FLt(Zero32, data[1].vx)
  /\ DAdd(kinetic_energy, potential_energy) # FirstEnergy
====
